---- MODULE Spec2Model ----
(***************************************************************************)
(* A/B benchmark harness of semcs: the TestRunner of                       *)
(* benchmarks/automation/test_runner.py together with the two agents it    *)
(* drives (benchmarks/real_world/agents), and the retrieval metrics of    *)
(* benchmarks/quantitative/eval/metrics.py.  Python floats are modelled as *)
(* exact rationals <<numerator, denominator>> in lowest terms.             *)
(***************************************************************************)
EXTENDS Integers, Sequences, FiniteSets, TLC

\* ------------------------------------------------------------------ bounds
\* Longest task list handed to run_all_tasks.
MaxTasks == 2

\* ------------------------------------------------------------ rationals
Abs(n) == IF n < 0 THEN -n ELSE n

RECURSIVE Gcd(_, _)
Gcd(a, b) == IF b = 0 THEN a ELSE Gcd(b, a % b)

\* n/d in lowest terms with a positive denominator (d # 0).
Rat(n, d) ==
    LET g == Gcd(Abs(n), Abs(d))
        s == IF d < 0 THEN -1 ELSE 1
    IN  <<(s * n) \div g, (s * d) \div g>>

Zero == Rat(0, 1)
RAdd(p, q) == Rat(p[1] * q[2] + q[1] * p[2], p[2] * q[2])
RSub(p, q) == Rat(p[1] * q[2] - q[1] * p[2], p[2] * q[2])
RDivInt(p, n) == Rat(p[1], p[2] * n)
RLe(p, q) == p[1] * q[2] <= q[1] * p[2]
RLt(p, q) == p[1] * q[2] < q[1] * p[2]

RECURSIVE RSum(_)
RSum(s) == IF s = <<>> THEN Zero ELSE RAdd(Head(s), RSum(Tail(s)))

\* sum(1 for m in s if m.<flag>)
CountTrue(s, flag) == Cardinality({k \in 1..Len(s) : s[k][flag]})

\* statistics.mean over a non-empty sequence of numbers.
Mean(s) == RDivInt(RSum(s), Len(s))

\* sorted(s): the ascending permutation of s.
RECURSIVE Insert(_, _)
Insert(x, s) ==
    IF s = <<>> THEN <<x>>
    ELSE IF RLe(x, Head(s)) THEN <<x>> \o s
    ELSE <<Head(s)>> \o Insert(x, Tail(s))

RECURSIVE Sorted(_)
Sorted(s) == IF s = <<>> THEN <<>> ELSE Insert(Head(s), Sorted(Tail(s)))

\* statistics.median over a non-empty sequence of numbers.
Median(s) ==
    LET d == Sorted(s)
        n == Len(s)
    IN  IF n % 2 = 1 THEN d[(n \div 2) + 1]
        ELSE RDivInt(RAdd(d[n \div 2], d[(n \div 2) + 1]), 2)

\* ------------------------------------------------------- python helpers
\* dict.get(key, default)
Get(d, key, default) == IF key \in DOMAIN d THEN d[key] ELSE default

\* The value None.
None == "None"

\* lst[:m] of Python: a negative m drops the last -m elements.
Slice(lst, m) ==
    LET n == IF m >= 0 THEN (IF m < Len(lst) THEN m ELSE Len(lst))
             ELSE (IF Len(lst) + m > 0 THEN Len(lst) + m ELSE 0)
    IN  SubSeq(lst, 1, n)

\* The outcome of a call that raised.
Raise(e) == [raised |-> e]
Raised(v) == DOMAIN v = {"raised"}

\* ------------------------------------------------------- task records
\* The phrase cs_hybrid_agent.py looks for in a task's success_criteria.
Finds70 == "Finds at least 70% of ground truth files"

\* What the repository and the search tools answer for one task: the files
\* each agent's searches return, the commands it records, their output
\* tokens and wall-clock duration, and whether the run raises.
Env(bf, bc, bt, bd, br, cf, cc, ct, cd, cr) ==
    [b_found |-> bf, b_calls |-> bc, b_tokens |-> bt, b_duration |-> bd,
     b_raises |-> br,
     cs_found |-> cf, cs_calls |-> cc, cs_tokens |-> ct, cs_duration |-> cd,
     cs_raises |-> cr]

\* A recall-only task: the baseline misses one file, cs finds both among five.
TaskNav ==
    [task |-> [id |-> "t1", task |-> "d", query_en |-> "q",
               category |-> "nav", difficulty |-> "easy",
               ground_truth_files |-> {"a", "b"},
               success_criteria |-> {Finds70}],
     env  |-> Env({"a", "x", "y"}, 4, 400, 8, FALSE,
                  {"a", "b", "x", "y", "z"}, 1, 100, 2, FALSE)]

\* The same searches and ground truth, but no success_criteria.
TaskNavDefault ==
    [task |-> [id |-> "t2", task |-> "d", query_en |-> "q",
               category |-> "nav", difficulty |-> "easy",
               ground_truth_files |-> {"a", "b"}],
     env  |-> Env({"a", "b", "x", "y", "z"}, 4, 400, 8, FALSE,
                  {"a", "b", "x", "y", "z"}, 1, 100, 2, FALSE)]

\* No category, no difficulty, an empty query and no ground truth: the
\* baseline records no command and nothing is found by either agent.
TaskUnlabeled ==
    [task |-> [id |-> "t3", task |-> "d", query_en |-> "",
               ground_truth_files |-> {},
               success_criteria |-> {"Identifies the entry point"}],
     env  |-> Env({}, 0, 0, 0, FALSE,
                  {}, 1, 0, 0, FALSE)]

\* Malformed: no 'task' field.
TaskNoDescription ==
    [task |-> [id |-> "t5", query_en |-> "q", category |-> "cfg",
               ground_truth_files |-> {"a"}],
     env  |-> Env({"a"}, 2, 50, 3, FALSE, {"a"}, 1, 25, 1, FALSE)]

\* Malformed: no 'id' field.
TaskNoId ==
    [task |-> [task |-> "d", query_en |-> "q", category |-> "nav",
               ground_truth_files |-> {"a"}],
     env  |-> Env({"a"}, 2, 50, 3, FALSE, {"a"}, 1, 25, 1, FALSE)]

\* Well-formed, but the cs run raises (subprocess.run fails with an OSError
\* that _run_command does not catch).
TaskCsRaises ==
    [task |-> [id |-> "t7", task |-> "d", query_en |-> "q",
               category |-> "nav", difficulty |-> "medium",
               ground_truth_files |-> {"a"}],
     env  |-> Env({"a"}, 2, 50, 3, FALSE, {}, 0, 0, 0, TRUE)]

TaskPool ==
    {TaskNav, TaskNavDefault, TaskUnlabeled,
     TaskNoDescription, TaskNoId, TaskCsRaises}

\* Every list of at most n tasks.
TaskLists(n) == UNION {[1..k -> TaskPool] : k \in 0..n}

\* ------------------------------------------------------------- agents
\* precision and recall of a set of found files (both agents, same code).
Precision(found, truth) ==
    IF found # {} THEN Rat(Cardinality(found \cap truth), Cardinality(found))
    ELSE Zero

Recall(found, truth) ==
    IF truth # {} THEN Rat(Cardinality(found \cap truth), Cardinality(truth))
    ELSE Zero

\* success = recall >= 0.7
BaselineSuccess(task, precision, recall) == RLe(Rat(7, 10), recall)

\* Success on recall alone, whatever the criteria.
CsSuccessRecallOnly(task, precision, recall) == RLe(Rat(70, 100), recall)

\* success per the task's success_criteria
CsSuccess(task, precision, recall) ==
    IF Finds70 \in Get(task, "success_criteria", {})
    THEN RLe(Rat(70, 100), recall)
    ELSE RLe(Rat(70, 100), recall) /\ RLe(Rat(50, 100), precision)

AgentRun(calls, duration, tokens, found, truth, precision, recall, success) ==
    [total_calls |-> calls, total_duration |-> duration,
     total_output_tokens |-> tokens, files_found |-> found,
     ground_truth_files |-> truth, precision |-> precision,
     recall |-> recall, success |-> success]

\* BaselineAgent.execute_task
BaselineExecuteTask(job) ==
    LET task  == job.task
        truth == Get(task, "ground_truth_files", {})
        found == job.env.b_found
        p     == Precision(found, truth)
        r     == Recall(found, truth)
    IN  IF {"id", "task", "query_en"} \ DOMAIN task # {} THEN Raise("KeyError")
        ELSE IF job.env.b_raises THEN Raise("OSError")
        ELSE AgentRun(job.env.b_calls, job.env.b_duration, job.env.b_tokens,
                      found, truth, p, r, BaselineSuccess(task, p, r))

\* CSHybridAgent.execute_task
CsExecuteTask(job) ==
    LET task  == job.task
        truth == Get(task, "ground_truth_files", {})
        found == job.env.cs_found
        p     == Precision(found, truth)
        r     == Recall(found, truth)
    IN  IF {"id", "task", "query_en"} \ DOMAIN task # {} THEN Raise("KeyError")
        ELSE IF job.env.cs_raises THEN Raise("OSError")
        ELSE AgentRun(job.env.cs_calls, job.env.cs_duration, job.env.cs_tokens,
                      found, truth, p, r, CsSuccess(task, p, r))

\* -------------------------------------------------------- run_single_task
\* The reduction taken relative to the cs run instead of the baseline.
ReductionPctOfCs(a, b) == IF b > 0 THEN Rat((a - b) * 100, b) ELSE Zero

\* (a - b) / a * 100 if a > 0 else 0.0
ReductionPct(a, b) == IF a > 0 THEN Rat((a - b) * 100, a) ELSE Zero

\* TestRunner.run_single_task: a ComparisonMetrics, or the exception raised.
RunSingleTask(job) ==
    IF "id" \notin DOMAIN job.task THEN Raise("KeyError")
    ELSE
    LET task         == job.task
        baseline_run == BaselineExecuteTask(job)
        cs_run       == CsExecuteTask(job)
    IN  IF Raised(baseline_run) THEN baseline_run
        ELSE IF Raised(cs_run) THEN cs_run
        ELSE [task_id             |-> task.id,
              task_category       |-> Get(task, "category", "unknown"),
              task_difficulty     |-> Get(task, "difficulty", "medium"),
              baseline_calls      |-> baseline_run.total_calls,
              baseline_tokens     |-> baseline_run.total_output_tokens,
              baseline_duration   |-> baseline_run.total_duration,
              baseline_precision  |-> baseline_run.precision,
              baseline_recall     |-> baseline_run.recall,
              baseline_success    |-> baseline_run.success,
              cs_calls            |-> cs_run.total_calls,
              cs_tokens           |-> cs_run.total_output_tokens,
              cs_duration         |-> cs_run.total_duration,
              cs_precision        |-> cs_run.precision,
              cs_recall           |-> cs_run.recall,
              cs_success          |-> cs_run.success,
              call_reduction_pct  |->
                  ReductionPct(baseline_run.total_calls, cs_run.total_calls),
              token_reduction_pct |->
                  ReductionPct(baseline_run.total_output_tokens,
                               cs_run.total_output_tokens),
              time_reduction_pct  |->
                  ReductionPct(baseline_run.total_duration,
                               cs_run.total_duration),
              precision_improvement |->
                  RSub(cs_run.precision, baseline_run.precision),
              recall_improvement  |->
                  RSub(cs_run.recall, baseline_run.recall)]

\* ------------------------------------------------ generate_summary_report
\* [m.<field> for m in rs]
Column(rs, field) == [k \in 1..Len(rs) |-> rs[k][field]]

\* The report returned when there is no record: the empty dict.
EmptyReport == [k \in {} |-> 0]

\* 'total_tasks': len(self.results)
TotalTasks(rs) == Len(rs)

\* The medians taken as statistics.median_high: the upper middle value.
OverallImprovementsMedianHigh(rs) ==
    LET High(col) == Sorted(col)[(Len(col) \div 2) + 1]
    IN  [avg_call_reduction_pct     |-> Mean(Column(rs, "call_reduction_pct")),
         median_call_reduction_pct  |-> High(Column(rs, "call_reduction_pct")),
         avg_token_reduction_pct    |-> Mean(Column(rs, "token_reduction_pct")),
         median_token_reduction_pct |-> High(Column(rs, "token_reduction_pct")),
         avg_time_reduction_pct     |-> Mean(Column(rs, "time_reduction_pct"))]

\* summary['overall_improvements']
OverallImprovements(rs) ==
    [avg_call_reduction_pct     |-> Mean(Column(rs, "call_reduction_pct")),
     median_call_reduction_pct  |-> Median(Column(rs, "call_reduction_pct")),
     avg_token_reduction_pct    |-> Mean(Column(rs, "token_reduction_pct")),
     median_token_reduction_pct |-> Median(Column(rs, "token_reduction_pct")),
     avg_time_reduction_pct     |-> Mean(Column(rs, "time_reduction_pct"))]

\* The improvement relative to the baseline's successes, not to all tasks.
SuccessRatesRelative(rs) ==
    LET baseline_successes == CountTrue(rs, "baseline_success")
        cs_successes       == CountTrue(rs, "cs_success")
    IN  [baseline    |-> Rat(baseline_successes, Len(rs)),
         cs_hybrid   |-> Rat(cs_successes, Len(rs)),
         improvement |->
             IF baseline_successes > 0
             THEN Rat(cs_successes - baseline_successes, baseline_successes)
             ELSE Zero]

\* summary['success_rates']
SuccessRates(rs) ==
    LET baseline_successes == CountTrue(rs, "baseline_success")
        cs_successes       == CountTrue(rs, "cs_success")
    IN  [baseline    |-> Rat(baseline_successes, Len(rs)),
         cs_hybrid   |-> Rat(cs_successes, Len(rs)),
         improvement |-> Rat(cs_successes - baseline_successes, Len(rs))]

\* summary['precision_recall']
PrecisionRecall(rs) ==
    LET baseline_precision == Mean(Column(rs, "baseline_precision"))
        cs_precision       == Mean(Column(rs, "cs_precision"))
        baseline_recall    == Mean(Column(rs, "baseline_recall"))
        cs_recall          == Mean(Column(rs, "cs_recall"))
    IN  [baseline_precision    |-> baseline_precision,
         cs_precision          |-> cs_precision,
         baseline_recall       |-> baseline_recall,
         cs_recall             |-> cs_recall,
         precision_improvement |-> RSub(cs_precision, baseline_precision),
         recall_improvement    |-> RSub(cs_recall, baseline_recall)]

\* categories[cat]: the records of one category, in order.
CategoryBucket(rs, cat) ==
    LET InCat(m) == m.task_category = cat
    IN  SelectSeq(rs, InCat)

\* A breakdown that skips the records without a category label.
CategorySummaryLabeled(rs) ==
    LET cats == {rs[k].task_category : k \in 1..Len(rs)} \ {"unknown"}
    IN  [cat \in cats |->
            LET metrics == CategoryBucket(rs, cat)
            IN  [count               |-> Len(metrics),
                 avg_call_reduction  |-> Mean(Column(metrics, "call_reduction_pct")),
                 avg_token_reduction |-> Mean(Column(metrics, "token_reduction_pct")),
                 cs_success_rate     |->
                     Rat(CountTrue(metrics, "cs_success"), Len(metrics))]]

\* summary['by_category']: one entry per category that has a record.
CategorySummary(rs) ==
    LET cats == {rs[k].task_category : k \in 1..Len(rs)}
    IN  [cat \in cats |->
            LET metrics == CategoryBucket(rs, cat)
            IN  [count               |-> Len(metrics),
                 avg_call_reduction  |-> Mean(Column(metrics, "call_reduction_pct")),
                 avg_token_reduction |-> Mean(Column(metrics, "token_reduction_pct")),
                 cs_success_rate     |->
                     Rat(CountTrue(metrics, "cs_success"), Len(metrics))]]

\* The run of generate_summary_report without its empty-collection guard:
\* statistics.mean of no data raises StatisticsError.
GenerateSummaryReportUnguarded(rs) ==
    IF rs = <<>> THEN Raise("StatisticsError")
    ELSE [total_tasks          |-> TotalTasks(rs),
          overall_improvements |-> OverallImprovements(rs),
          success_rates        |-> SuccessRates(rs),
          precision_recall     |-> PrecisionRecall(rs),
          by_category          |-> CategorySummary(rs)]

\* TestRunner.generate_summary_report over self.results = rs.
GenerateSummaryReport(rs) ==
    IF rs = <<>> THEN EmptyReport
    ELSE [total_tasks          |-> TotalTasks(rs),
          overall_improvements |-> OverallImprovements(rs),
          success_rates        |-> SuccessRates(rs),
          precision_recall     |-> PrecisionRecall(rs),
          by_category          |-> CategorySummary(rs)]

\* The keys print_summary reads and the report lacks: the first one is the
\* KeyError it raises.
PrintSummaryMissing(summary) ==
    LET top == {"total_tasks", "overall_improvements", "success_rates",
                "precision_recall", "by_category"} \ DOMAIN summary
    IN  IF top # {} THEN top
        ELSE ({"avg_call_reduction_pct", "median_call_reduction_pct",
               "avg_token_reduction_pct", "median_token_reduction_pct",
               "avg_time_reduction_pct"} \ DOMAIN summary.overall_improvements)
             \cup ({"baseline", "cs_hybrid", "improvement"}
                   \ DOMAIN summary.success_rates)
             \cup ({"baseline_precision", "cs_precision", "precision_improvement",
                    "baseline_recall", "cs_recall", "recall_improvement"}
                   \ DOMAIN summary.precision_recall)
             \cup UNION {{"count", "avg_call_reduction_pct",
                          "avg_token_reduction_pct", "cs_success_rate"}
                         \ DOMAIN summary.by_category[cat] :
                         cat \in DOMAIN summary.by_category}

\* -------------------------------------- quantitative/eval/metrics.py
\* Longest result list handed to a metric function.
MaxResults == 2

\* Largest rank a result carries.
MaxRank == 2

\* The documents of the corpus.
Docs == {"d1", "d2", "d3"}

Min(a, b) == IF a <= b THEN a ELSE b
RDiv(p, q) == Rat(p[1] * q[2], p[2] * q[1])

\* The outcome of a call that returned v.
Value(v) == [value |-> v]

\* @dataclass SearchResult: the fields are stored as given, none is checked.
SearchResult(doc_id, score, rank, relevant) ==
    [doc_id |-> doc_id, score |-> score, rank |-> rank, relevant |-> relevant]

\* The results a caller can construct; no metric function reads the score.
SearchResults ==
    {SearchResult(d, Rat(1, 2), r, f) :
     d \in Docs, r \in 0..MaxRank, f \in BOOLEAN}

\* Every list of at most n results.
ResultLists(n) == UNION {[1..m -> SearchResults] : m \in 0..n}

\* The relevant results of the whole list counted, not those of the top k.
PrecisionAtKUncut(results, k) ==
    IF results = <<>> \/ k = 0 THEN Zero
    ELSE Rat(CountTrue(results, "relevant"), k)

\* precision_at_k
PrecisionAtK(results, k) ==
    IF results = <<>> \/ k = 0 THEN Zero
    ELSE LET top_k          == Slice(results, k)
             relevant_count == CountTrue(top_k, "relevant")
         IN  Rat(relevant_count, k)

\* The hits of the top k divided by the cutoff, as precision does.
RecallAtKPerCutoff(results, k, total_relevant) ==
    IF results = <<>> \/ k = 0 \/ total_relevant = 0 THEN Zero
    ELSE Rat(CountTrue(Slice(results, k), "relevant"), k)

\* recall_at_k
RecallAtK(results, k, total_relevant) ==
    IF results = <<>> \/ k = 0 \/ total_relevant = 0 THEN Zero
    ELSE LET top_k          == Slice(results, k)
             relevant_count == CountTrue(top_k, "relevant")
         IN  Rat(relevant_count, total_relevant)

\* mean_reciprocal_rank: 1.0 / rank of the first relevant result of the list,
\* in the order of the list; the division raises when that rank is 0.
MeanReciprocalRank(results) ==
    LET IsRelevant(r) == r.relevant
        hits          == SelectSeq(results, IsRelevant)
    IN  IF hits = <<>> THEN Value(Zero)
        ELSE IF hits[1].rank = 0 THEN Raise("ZeroDivisionError")
        ELSE Value(Rat(1, hits[1].rank))

\* 1 / np.log2(i + 1) for i = 1..10, rounded to thousandths.
InvLog2 == <<1000, 631, 500, 431, 387, 356, 333, 315, 301, 289>>

Discount(i) == Rat(InvLog2[i], 1000)

\* discounted_cumulative_gain
DiscountedCumulativeGain(results, k) ==
    IF results = <<>> \/ k = 0 THEN Zero
    ELSE LET top_k == Slice(results, k)
         IN  RSum([i \in 1..Len(top_k) |->
                      IF top_k[i].relevant THEN Discount(i) ELSE Zero])

\* The ideal ranking taken to hold one relevant result, whatever k and
\* total_relevant are.
NormalizedDcgSingleIdeal(results, k, total_relevant) ==
    IF results = <<>> \/ k = 0 \/ total_relevant = 0 THEN Zero
    ELSE RDiv(DiscountedCumulativeGain(results, k), Discount(1))

\* normalized_dcg
NormalizedDcg(results, k, total_relevant) ==
    IF results = <<>> \/ k = 0 \/ total_relevant = 0 THEN Zero
    ELSE LET actual_dcg    == DiscountedCumulativeGain(results, k)
             ideal_results ==
                 [i \in 1..Min(k, total_relevant) |->
                     SearchResult(<<"ideal", i>>, Rat(1, 1), i, TRUE)]
             ideal_dcg     == DiscountedCumulativeGain(ideal_results, k)
         IN  IF ideal_dcg = Zero THEN Zero ELSE RDiv(actual_dcg, ideal_dcg)

\* The precision sum divided by the relevant results found, not by
\* total_relevant.
AveragePrecisionOverHits(results, total_relevant) ==
    IF results = <<>> \/ total_relevant = 0
       \/ CountTrue(results, "relevant") = 0 THEN Zero
    ELSE LET relevant_count(i) ==
                 Cardinality({j \in 1..i : results[j].relevant})
             precision_sum ==
                 RSum([i \in 1..Len(results) |->
                          IF results[i].relevant
                          THEN Rat(relevant_count(i), i) ELSE Zero])
         IN  RDivInt(precision_sum, CountTrue(results, "relevant"))

\* average_precision
AveragePrecision(results, total_relevant) ==
    IF results = <<>> \/ total_relevant = 0 THEN Zero
    ELSE LET relevant_count(i) ==
                 Cardinality({j \in 1..i : results[j].relevant})
             precision_sum ==
                 RSum([i \in 1..Len(results) |->
                          IF results[i].relevant
                          THEN Rat(relevant_count(i), i) ELSE Zero])
         IN  RDivInt(precision_sum, total_relevant)

\* The results taken with the relevance flags the caller gave them.
MarkedAsGiven(results, relevant_docs) == results

\* The copy of the results with relevant = (doc_id in relevant_docs).
Marked(results, relevant_docs) ==
    [i \in 1..Len(results) |->
        SearchResult(results[i].doc_id, results[i].score, results[i].rank,
                     results[i].doc_id \in relevant_docs)]

\* The queries, in the order the dict all_results holds them.
Queries == <<"q1", "q2">>

\* The mean taken over every query of all_results, a query without relevant
\* documents counting as 0.0.
MeanAveragePrecisionOverAll(all_results, relevance_judgments) ==
    IF DOMAIN all_results = {} THEN Zero
    ELSE LET asked     == SelectSeq(Queries, LAMBDA q : q \in DOMAIN all_results)
             ap_scores ==
                 [i \in 1..Len(asked) |->
                     LET relevant_docs ==
                             Get(relevance_judgments, asked[i], {})
                     IN  AveragePrecision(
                             Marked(all_results[asked[i]], relevant_docs),
                             Cardinality(relevant_docs))]
         IN  Mean(ap_scores)

\* mean_average_precision
MeanAveragePrecision(all_results, relevance_judgments) ==
    IF DOMAIN all_results = {} THEN Zero
    ELSE LET Judged(q) == /\ q \in DOMAIN all_results
                          /\ Get(relevance_judgments, q, {}) # {}
             judged    == SelectSeq(Queries, Judged)
             ap_scores ==
                 [i \in 1..Len(judged) |->
                     LET relevant_docs == relevance_judgments[judged[i]]
                     IN  AveragePrecision(
                             Marked(all_results[judged[i]], relevant_docs),
                             Cardinality(relevant_docs))]
         IN  IF Len(judged) = 0 THEN Zero ELSE Mean(ap_scores)

\* evaluate_query: the EvaluationResult, or the exception of a metric.
EvaluateQuery(results, relevant_docs) ==
    LET marked_results == Marked(results, relevant_docs)
        total_relevant == Cardinality(relevant_docs)
        query_id       == IF results # <<>> THEN results[1].doc_id
                          ELSE "unknown"
        mrr            == MeanReciprocalRank(marked_results)
    IN  IF Raised(mrr) THEN mrr
        ELSE Value(
            [query_id          |-> query_id,
             precision_at_1    |-> PrecisionAtK(marked_results, 1),
             precision_at_5    |-> PrecisionAtK(marked_results, 5),
             precision_at_10   |-> PrecisionAtK(marked_results, 10),
             recall_at_10      |-> RecallAtK(marked_results, 10,
                                             total_relevant),
             mrr               |-> mrr.value,
             ndcg_at_10        |-> NormalizedDcg(marked_results, 10,
                                                 total_relevant),
             average_precision |-> AveragePrecision(marked_results,
                                                    total_relevant)])

\* max(a, b, c) of three floats.
RMax3(a, b, c) ==
    LET ab == IF RLe(a, b) THEN b ELSE a
    IN  IF RLe(ab, c) THEN c ELSE ab

\* The absolute difference to the best single method, not the relative one.
HybridFusionGainAbsolute(hybrid_score, semantic_score, lexical_score, ast_score) ==
    RSub(hybrid_score, RMax3(semantic_score, lexical_score, ast_score))

\* hybrid_fusion_gain
HybridFusionGain(hybrid_score, semantic_score, lexical_score, ast_score) ==
    LET best_single == RMax3(semantic_score, lexical_score, ast_score)
    IN  IF best_single = Zero THEN Zero
        ELSE RDiv(RSub(hybrid_score, best_single), best_single)

\* ------------------------------------------------------------- the runner
\* test_runner.py annotates max_tasks with Optional (line 207) without
\* importing it (line 24): the module loads only under an interpreter that
\* evaluates annotations lazily.  The runner below is the one such an
\* interpreter builds.
VARIABLES
    results,        \* self.results of the TestRunner
    pc,             \* run_all_tasks: "init" before its first call, "loop"
                    \* while it iterates, then "returned" or "raised"
    tasks_to_run,   \* run_all_tasks: the tasks it iterates over
    max_tasks,      \* run_all_tasks: its cap, <<n>> for an int, <<>> for None
    local_results,  \* run_all_tasks: its local list `results`; after the call,
                    \* the records that invocation returned (none if it raised)
    dispatched,     \* run_single_task calls of the current or last batch
    failed,         \* how many of them raised
    summary,        \* the report generate_summary_report last produced
    exc,            \* <<method, exception>> the last call propagated, or <<>>
    mainpc,         \* "api" for a library caller, else main()'s position
    call,           \* a direct call of one function: its name and arguments
    ret,            \* <<>> until that call is over, then <<its outcome>>
    agent,          \* one agent instance: its class, self.tool_calls and the
                    \* list objects it has created
    runs            \* the execute_task calls made on it, with their outcomes

vars == <<results, pc, tasks_to_run, max_tasks, local_results, dispatched,
          failed, summary, exc, mainpc, call, ret, agent, runs>>

\* No report has been produced since the last batch started.
NoSummary == [none |-> TRUE]

\* No exception.
NoExc == <<>>

\* No function is called directly: the runner is being driven.
NoCall == [fn |-> "none"]

\* No agent instance is under observation.
NoAgent == [kind |-> "none", heap |-> << >>, self |-> 0]

\* max_tasks: Optional[int], None as <<>> and the int n as <<n>>.
NoCap == <<>>
Caps == {NoCap} \cup {<<n>> : n \in {-1, 0, 1, MaxTasks}}

\* TestRunner.__init__, before main() or a library caller uses the runner.
Init ==
    /\ results = <<>>
    /\ pc = "init"
    /\ tasks_to_run = <<>>
    /\ max_tasks = NoCap
    /\ local_results = <<>>
    /\ dispatched = 0
    /\ failed = 0
    /\ summary = NoSummary
    /\ exc = NoExc
    /\ mainpc \in {"api", "main"}
    /\ call = NoCall
    /\ ret = <<>>
    /\ agent = NoAgent
    /\ runs = << >>

\* tasks[:max_tasks] if max_tasks else tasks
TasksToRun(tasks, cap) ==
    IF cap # NoCap /\ cap[1] # 0 THEN Slice(tasks, cap[1]) ELSE tasks

\* run_all_tasks up to the loop: agents built, the task list cut to the cap.
EnterRunAllTasks(tasks, cap) ==
    /\ tasks_to_run' = TasksToRun(tasks, cap)
    /\ max_tasks' = cap
    /\ local_results' = <<>>
    /\ dispatched' = 0
    /\ failed' = 0
    /\ pc' = "loop"
    /\ exc' = NoExc
    /\ summary' = NoSummary
    /\ UNCHANGED <<results, call, ret,
                   agent, runs>>

\* A library caller invokes run_all_tasks(tasks, max_tasks=cap).
RunAllTasks ==
    /\ pc # "loop"
    /\ mainpc = "api"
    /\ \E tasks \in TaskLists(MaxTasks), cap \in Caps :
           EnterRunAllTasks(tasks, cap)
    /\ UNCHANGED mainpc

HasId(job) == "id" \in DOMAIN job.task

\* load_tasks: the documents that are task records with an 'id'.
LoadTasks(docs) == SelectSeq(docs, HasId)

\* main(): load, filter by --category and --difficulty, run_all_tasks.
MainRun ==
    /\ pc # "loop"
    /\ mainpc = "main"
    /\ \E docs \in TaskLists(MaxTasks), cap \in Caps,
          category \in {None, "nav"}, difficulty \in {None, "easy"} :
           LET InCategory(j) ==
                   category = None \/ Get(j.task, "category", None) = category
               InDifficulty(j) ==
                   difficulty = None
                   \/ Get(j.task, "difficulty", None) = difficulty
               tasks == SelectSeq(SelectSeq(LoadTasks(docs), InCategory),
                                  InDifficulty)
           IN  EnterRunAllTasks(tasks, cap)
    /\ mainpc' = "main_running"

\* Where the caller stands after a call: a library caller goes on, main()
\* moves to its next statement, or dies on an exception.
AfterCall(next, raised) ==
    IF mainpc = "api" THEN "api"
    ELSE IF raised THEN "main_crashed" ELSE next

\* self.results.append(metrics) inside the loop instead of a local list.
ResultsInLoopShared(rs, local) == local

\* self.results after one loop iteration: the loop never writes it.
ResultsInLoop(rs, local) == rs

\* One iteration of the loop of run_all_tasks.  The print before the try
\* reads task['id']: its KeyError leaves run_all_tasks, whose frame is gone.
ProcessTask ==
    /\ pc = "loop"
    /\ dispatched < Len(tasks_to_run)
    /\ LET job == tasks_to_run[dispatched + 1]
           metrics == RunSingleTask(job)
       IN  IF ~HasId(job)
           THEN /\ pc' = "raised"
                /\ exc' = <<"run_all_tasks", "KeyError">>
                /\ mainpc' = AfterCall("main_summary", TRUE)
                /\ tasks_to_run' = <<>>
                /\ max_tasks' = NoCap
                /\ local_results' = <<>>
                /\ UNCHANGED <<results, dispatched, failed>>
           ELSE /\ dispatched' = dispatched + 1
                /\ failed' = IF Raised(metrics) THEN failed + 1 ELSE failed
                /\ local_results' =
                       IF Raised(metrics) THEN local_results
                       ELSE Append(local_results, metrics)
                /\ results' = ResultsInLoop(results, local_results')
                /\ UNCHANGED <<pc, exc, mainpc, tasks_to_run, max_tasks>>
    /\ UNCHANGED <<summary, call, ret,
                   agent, runs>>

\* self.results.extend(results): the records of earlier runs are kept.
ResultsAtReturnExtend(rs, local) == rs \o local

\* self.results = results
ResultsAtReturn(rs, local) == local

\* The loop is over: run_all_tasks stores its list and returns.
FinishRunAllTasks ==
    /\ pc = "loop"
    /\ dispatched = Len(tasks_to_run)
    /\ results' = ResultsAtReturn(results, local_results)
    /\ pc' = "returned"
    /\ mainpc' = AfterCall("main_summary", FALSE)
    /\ tasks_to_run' = <<>>
    /\ max_tasks' = NoCap
    /\ UNCHANGED <<local_results, dispatched, failed, summary, exc,
                   call, ret,
                   agent, runs>>

\* A report that consumes the records it reads (self.results.pop()).
ResultsAfterSummaryDrain(rs) == IF rs = <<>> THEN rs ELSE Tail(rs)

\* What generate_summary_report leaves in self.results.
ResultsAfterSummary(rs) == rs

\* The effect of a call of generate_summary_report by `method`.
CallGenerateSummary(method, next) ==
    LET report == GenerateSummaryReport(results)
    IN  /\ exc' = IF Raised(report) THEN <<method, report.raised>> ELSE NoExc
        /\ summary' = IF Raised(report) THEN NoSummary ELSE report
        /\ mainpc' = AfterCall(next, Raised(report))
        /\ results' = ResultsAfterSummary(results)
        /\ UNCHANGED <<pc, tasks_to_run, max_tasks, local_results,
                       dispatched, failed, call, ret,
                   agent, runs>>

\* summary = runner.generate_summary_report()
GenerateSummary ==
    /\ pc # "loop"
    /\ mainpc \in {"api", "main_summary"}
    /\ CallGenerateSummary("generate_summary_report", "main_print")

\* runner.print_summary(summary)
PrintSummary ==
    /\ pc # "loop"
    /\ mainpc \in {"api", "main_print"}
    /\ summary # NoSummary
    /\ LET raises == PrintSummaryMissing(summary) # {}
       IN  /\ exc' = IF raises THEN <<"print_summary", "KeyError">> ELSE NoExc
           /\ mainpc' = AfterCall("main_save", raises)
    /\ UNCHANGED <<results, pc, tasks_to_run, max_tasks, local_results,
                   dispatched, failed, summary, call, ret,
                   agent, runs>>

\* runner.save_results(output_dir): the detailed file, then the report of
\* generate_summary_report dumped to summary_report.json.
SaveResults ==
    /\ pc # "loop"
    /\ mainpc \in {"api", "main_save"}
    /\ CallGenerateSummary("save_results", "main_done")

Next ==
    \/ RunAllTasks
    \/ MainRun
    \/ ProcessTask
    \/ FinishRunAllTasks
    \/ GenerateSummary
    \/ PrintSummary
    \/ SaveResults

Spec == Init /\ [][Next]_vars

\* ------------------------------------------------------------ properties
\* A report over at least one record is in hand.
HasReport == summary # NoSummary /\ "total_tasks" \in DOMAIN summary

C2_NeverPropagates == pc # "raised"

\* C3: with no record, generate_summary_report returns the empty report and
\* does not raise; a report over one or more records is never that sentinel
\* (it carries total_tasks >= 1, even when every statistic is zero).
C3_EmptySentinel ==
    /\ exc = NoExc \/ exc[1] \notin {"generate_summary_report", "save_results"}
    /\ summary # NoSummary =>
          /\ (results = <<>>) <=> (summary = EmptyReport)
          /\ (results # <<>>) <=> (HasReport /\ summary.total_tasks >= 1)

C3_Witness ==
    /\ pc = "returned"
    /\ dispatched >= 1
    /\ failed = dispatched
    /\ summary = EmptyReport

\* C4: self.results is written only by the return of run_all_tasks, after
\* the last task evaluation of the batch, so no state of a running batch
\* shows part of that batch's records; and a report exists only once the
\* batch is over.
C4_WrittenOnceAfterLastTask ==
    [][/\ (results' # results) =>
              /\ pc = "loop"
              /\ dispatched = Len(tasks_to_run)
              /\ pc' = "returned"
              /\ results' = local_results
       /\ (summary' # NoSummary) => (pc' # "loop")
       /\ (mainpc' \in {"main_print", "main_save", "main_done"})
              => (pc' = "returned")]_vars

C4_Witness ==
    /\ pc = "loop"
    /\ dispatched < Len(tasks_to_run)
    /\ Len(local_results) = 1
    /\ results = <<>>

\* C5 as stated: once an invocation of run_all_tasks is over, self.results
\* holds exactly the records of that most recent invocation.
C5_OnlyLatestRun ==
    (pc \in {"returned", "raised"}) => (results = local_results)

\* C6: generate_summary_report (called directly or by save_results) leaves
\* self.results as it found it, and successive reports with no batch in
\* between are equal.
C6_ReportIsPure ==
    [][/\ (pc # "loop" /\ pc' # "loop") => (results' = results)
       /\ (summary # NoSummary /\ summary' # NoSummary)
              => (summary' = summary)]_vars

C6_Witness ==
    /\ pc = "returned"
    /\ Len(results) = 2
    /\ HasReport
    /\ summary = GenerateSummaryReport(results)

\* C7 as stated: with a cap max_tasks >= 0 supplied, at most max_tasks task
\* evaluations are dispatched.
C7_CapBoundsDispatch ==
    (pc = "loop" /\ max_tasks # NoCap /\ max_tasks[1] >= 0)
        => (dispatched <= max_tasks[1])

\* The task record a ComparisonMetrics was produced from.
TaskById(id) == (CHOOSE j \in TaskPool : HasId(j) /\ j.task.id = id).task

\* C8 as stated: for both strategies the success flag is what the task's own
\* success policy gives for that strategy's precision and recall.
C8_PolicyDecidesBoth ==
    \A k \in 1..Len(local_results) :
        LET m    == local_results[k]
            task == TaskById(m.task_id)
        IN  /\ m.cs_success =
                   CsSuccess(task, m.cs_precision, m.cs_recall)
            /\ m.baseline_success =
                   CsSuccess(task, m.baseline_precision, m.baseline_recall)

\* C9: in a non-empty report each success rate is successes / total_tasks,
\* the improvement is the difference of the two rates, lies in [-1, 1], and
\* only the records whose two flags differ contribute to it.
C9_SuccessRates ==
    HasReport =>
        LET n     == summary.total_tasks
            b     == Len(SelectSeq(results, LAMBDA m : m.baseline_success))
            c     == Len(SelectSeq(results, LAMBDA m : m.cs_success))
            gains == Len(SelectSeq(results,
                         LAMBDA m : m.cs_success /\ ~m.baseline_success))
            losses == Len(SelectSeq(results,
                         LAMBDA m : m.baseline_success /\ ~m.cs_success))
            rates == summary.success_rates
        IN  /\ n = Len(results)
            /\ rates.baseline = Rat(b, n)
            /\ rates.cs_hybrid = Rat(c, n)
            /\ rates.improvement = RSub(rates.cs_hybrid, rates.baseline)
            /\ rates.improvement = Rat(gains - losses, n)
            /\ RLe(Rat(-1, 1), rates.improvement)
            /\ RLe(rates.improvement, Rat(1, 1))

C9_Witness ==
    /\ HasReport
    /\ summary.total_tasks = 2
    /\ summary.success_rates.improvement = Rat(-1, 2)

RECURSIVE SumCounts(_, _)
\* The sum of f[c].count over the categories cs.
SumCounts(f, cs) ==
    IF cs = {} THEN 0
    ELSE LET c == CHOOSE x \in cs : TRUE
         IN  f[c].count + SumCounts(f, cs \ {c})

MaxCount == 2

\* The runner's variables, which a direct call of a function leaves alone.
runnerVars == <<results, pc, tasks_to_run, max_tasks, local_results,
                dispatched, failed, summary, exc, mainpc>>

\* The function called returns v or raises: its outcome is kept in ret.
Return(v) ==
    /\ ret = <<>>
    /\ ret' = <<v>>
    /\ UNCHANGED <<call, runnerVars, agent, runs>>

\* The call of function fn is over.
Done(fn) == call.fn = fn /\ ret # <<>>

\* One task for every pair of agent outcomes with counts up to MaxCount.
OutcomeJobs ==
    {[task |-> TaskNav.task,
      env  |-> Env({"a"}, bc, bt, bd, FALSE, {"a", "b"}, cc, ct, cd, FALSE)] :
     bc \in 0..MaxCount, bt \in 0..MaxCount, bd \in 0..MaxCount,
     cc \in 0..MaxCount, ct \in 0..MaxCount, cd \in 0..MaxCount}

RunSingleTaskArgs ==
    \E j \in OutcomeJobs :
        call = [fn |-> "run_single_task", job |-> j]

\* runner.run_single_task(task, baseline_agent, cs_agent)
CallRunSingleTask ==
    /\ call.fn = "run_single_task"
    /\ Return(RunSingleTask(call.job))

\* C11: for every pair of agent outcomes run_single_task returns a record
\* (no division error) whose call, token and time reductions each equal
\* (A - B) / A * 100 when the baseline quantity A is not 0, and 0.0 when it is.
C11_ReductionFormula ==
    Done("run_single_task") =>
        LET m == ret[1]
            e == call.job.env
            Is(p, a, b) == IF a # 0 THEN p[1] * a = (a - b) * 100 * p[2]
                           ELSE p = Zero
        IN  /\ ~Raised(m)
            /\ Is(m.call_reduction_pct, e.b_calls, e.cs_calls)
            /\ Is(m.token_reduction_pct, e.b_tokens, e.cs_tokens)
            /\ Is(m.time_reduction_pct, e.b_duration, e.cs_duration)

\* A record over a baseline with no command (0.0), fewer tokens than cs (a
\* negative reduction) and a longer duration than cs (a positive one).
C11_Witness ==
    /\ Done("run_single_task")
    /\ call.job.env.b_calls = 0 /\ call.job.env.cs_calls > 0
    /\ ret[1].call_reduction_pct = Zero
    /\ RLt(ret[1].token_reduction_pct, Zero)
    /\ RLt(Zero, ret[1].time_reduction_pct)

\* ------------------------------------------ metric functions called directly
\* The cutoffs a caller passes: negative, zero, within and past the list.
Cutoffs == -1..(MaxResults + 1)

\* The values of total_relevant: the size of a judgment set.
Relevants == 0..Cardinality(Docs)

PrecisionArgs ==
    \E r \in ResultLists(MaxResults), k \in Cutoffs :
        call = [fn |-> "precision_at_k", results |-> r, k |-> k]

RecallArgs ==
    \E r \in ResultLists(MaxResults), k \in Cutoffs, t \in Relevants :
        call = [fn |-> "recall_at_k", results |-> r, k |-> k,
                total_relevant |-> t]

MrrArgs ==
    \E r \in ResultLists(MaxResults) :
        call = [fn |-> "mean_reciprocal_rank", results |-> r]

DcgArgs ==
    \E r \in ResultLists(MaxResults), k \in Cutoffs :
        call = [fn |-> "discounted_cumulative_gain", results |-> r, k |-> k]

NdcgArgs ==
    \E r \in ResultLists(MaxResults), k \in Cutoffs, t \in Relevants :
        call = [fn |-> "normalized_dcg", results |-> r, k |-> k,
                total_relevant |-> t]

ApArgs ==
    \E r \in ResultLists(MaxResults), t \in Relevants :
        call = [fn |-> "average_precision", results |-> r, total_relevant |-> t]

EvaluateQueryArgs ==
    \E r \in ResultLists(MaxResults), d \in SUBSET Docs :
        call = [fn |-> "evaluate_query", results |-> r, relevant_docs |-> d]

CallPrecisionAtK ==
    /\ call.fn = "precision_at_k"
    /\ Return(Value(PrecisionAtK(call.results, call.k)))

CallRecallAtK ==
    /\ call.fn = "recall_at_k"
    /\ Return(Value(RecallAtK(call.results, call.k, call.total_relevant)))

CallMeanReciprocalRank ==
    /\ call.fn = "mean_reciprocal_rank"
    /\ Return(MeanReciprocalRank(call.results))

CallDiscountedCumulativeGain ==
    /\ call.fn = "discounted_cumulative_gain"
    /\ Return(Value(DiscountedCumulativeGain(call.results, call.k)))

CallNormalizedDcg ==
    /\ call.fn = "normalized_dcg"
    /\ Return(Value(NormalizedDcg(call.results, call.k, call.total_relevant)))

CallAveragePrecision ==
    /\ call.fn = "average_precision"
    /\ Return(Value(AveragePrecision(call.results, call.total_relevant)))

CallEvaluateQuery ==
    /\ call.fn = "evaluate_query"
    /\ Return(EvaluateQuery(call.results, call.relevant_docs))

\* ------------------------------------------------ properties of the metrics
\* The value a call returned.
Returned == ret[1].value

InUnit(p) == RLe(Zero, p) /\ RLe(p, Rat(1, 1))

\* A result list as the data model wants it: ranks 1, 2, ... in list order
\* and no document twice.
WellFormed(rs) ==
    /\ \A i \in 1..Len(rs) : rs[i].rank = i
    /\ \A i, j \in 1..Len(rs) : rs[i].doc_id = rs[j].doc_id => i = j

\* C12: a result list whose ranks are not 1, 2, ... ascending, or which holds
\* a document twice, is rejected with an exception when it is handed to a
\* metric function: no metric value is computed from it.
C12_MalformedRejected ==
    (ret # <<>> /\ "results" \in DOMAIN call /\ ~WellFormed(call.results))
        => Raised(ret[1])

\* C13: no metric function raises, whatever result list (any ranks), cutoff
\* and total_relevant it is given.
C13_MetricsTotal ==
    (ret # <<>> /\ call.fn # "run_single_task") => ~Raised(ret[1])

\* C14: every numeric field of the bundle evaluate_query returns lies in
\* [0, 1].
C14_BundleInUnit ==
    (Done("evaluate_query") /\ ~Raised(ret[1])) =>
        /\ InUnit(Returned.precision_at_1)
        /\ InUnit(Returned.precision_at_5)
        /\ InUnit(Returned.precision_at_10)
        /\ InUnit(Returned.recall_at_10)
        /\ InUnit(Returned.mrr)
        /\ InUnit(Returned.ndcg_at_10)
        /\ InUnit(Returned.average_precision)

\* C15 as stated: for every result list and every integer k, precision_at_k
\* is in [0, 1], and is 0.0 when k = 0 or the list is empty.  (Stated here
\* for the well-formed lists only, which is all it takes to refute it.)
C15_PrecisionInUnit ==
    (Done("precision_at_k") /\ WellFormed(call.results)) =>
        /\ InUnit(Returned)
        /\ (call.k = 0 \/ call.results = <<>>) => Returned = Zero

\* C15, amended: for every result list and every integer k >= 0,
\* precision_at_k is in [0, 1], and is 0.0 when k = 0 or the list is empty;
\* for k < 0 it is the count of relevant results among results[:k] divided
\* by k, hence never positive.
C15_PrecisionInUnitFromZero ==
    Done("precision_at_k") =>
        /\ call.k >= 0 => InUnit(Returned)
        /\ (call.k = 0 \/ call.results = <<>>) => Returned = Zero
        /\ call.k < 0 => RLe(Returned, Zero)

\* precision_at_k of a cutoff inside the list returned a value strictly
\* between 0 and 1.
C15_Witness ==
    /\ Done("precision_at_k")
    /\ call.k > 0 /\ call.k <= Len(call.results)
    /\ RLt(Zero, Returned) /\ RLt(Returned, Rat(1, 1))

\* recall_at_k of the same list and total_relevant at the cutoff k2.
RecallAgain(k2) == RecallAtK(call.results, k2, call.total_relevant)

\* C16 as stated: for a fixed list and total_relevant, recall_at_k does not
\* decrease from a cutoff k1 to any cutoff k2 >= k1 the function accepts.
\* (Stated here for the well-formed lists only.)
C16_RecallMonotone ==
    (Done("recall_at_k") /\ WellFormed(call.results)) =>
        \A k2 \in Cutoffs : call.k <= k2 => RLe(Returned, RecallAgain(k2))

\* C16, amended: for a fixed list and total_relevant >= 0, recall_at_k does
\* not decrease from a cutoff k1 >= 0 to any cutoff k2 >= k1.
C16_RecallMonotoneFromZero ==
    (Done("recall_at_k") /\ call.k >= 0) =>
        \A k2 \in Cutoffs : call.k <= k2 => RLe(Returned, RecallAgain(k2))

\* A positive recall at k1 >= 1 that a larger cutoff strictly improves.
C16_Witness ==
    /\ Done("recall_at_k")
    /\ call.k >= 1
    /\ RLt(Zero, Returned)
    /\ \E k2 \in Cutoffs : call.k < k2 /\ RLt(Returned, RecallAgain(k2))

\* The input of normalized_dcg is well formed: no document twice, and the
\* relevant results are documents of a judgment set of size total_relevant.
NdcgWellFormed ==
    /\ \A i, j \in 1..Len(call.results) :
           call.results[i].doc_id = call.results[j].doc_id => i = j
    /\ CountTrue(call.results, "relevant") <= call.total_relevant

\* DCG@k of the call's list, and the DCG of min(k, total_relevant) relevant
\* results at positions 1..min(k, total_relevant).
ActualDcg == DiscountedCumulativeGain(call.results, call.k)
IdealDcg ==
    RSum([i \in 1..Min(call.k, call.total_relevant) |-> Discount(i)])

\* C17 as stated: on well-formed input and for any k, the actual DCG@k is
\* at most the ideal DCG@k, and normalized_dcg is at most 1.
C17_DcgBelowIdeal ==
    (Done("normalized_dcg") /\ NdcgWellFormed) =>
        /\ RLe(ActualDcg, IdealDcg)
        /\ RLe(Returned, Rat(1, 1))

\* C17, amended: on well-formed input normalized_dcg is in [0, 1] for any k,
\* and for k >= 0 the actual DCG@k is at most the ideal DCG@k.
C17_DcgBelowIdealFromZero ==
    (Done("normalized_dcg") /\ NdcgWellFormed) =>
        /\ call.k >= 0 => RLe(ActualDcg, IdealDcg)
        /\ InUnit(Returned)

\* A well-formed call with two judged documents, of which the list ranks
\* one, below an irrelevant result: 0 < nDCG < 1.
C17_Witness ==
    /\ Done("normalized_dcg")
    /\ NdcgWellFormed
    /\ call.k >= 2 /\ call.total_relevant >= 2
    /\ RLt(Zero, Returned) /\ RLt(Returned, Rat(1, 1))

\* A well-formed list handed over in any order: the ranks are 1..n, each
\* once, and no document is listed twice.
AnyOrder(rs) ==
    /\ {rs[i].rank : i \in 1..Len(rs)} = 1..Len(rs)
    /\ \A i, j \in 1..Len(rs) : rs[i].doc_id = rs[j].doc_id => i = j

\* The ranks of the relevant results of the call's list.
RelevantRanks ==
    {call.results[i].rank : i \in {j \in 1..Len(call.results) :
                                      call.results[j].relevant}}

\* C18: mean_reciprocal_rank returns 1 / (the smallest rank among the
\* relevant results) whatever the order of the list, and 0.0 exactly when no
\* result is relevant.
C18_MrrSmallestRank ==
    (Done("mean_reciprocal_rank") /\ AnyOrder(call.results)) =>
        /\ ~Raised(ret[1])
        /\ Returned = Zero <=> RelevantRanks = {}
        /\ RelevantRanks # {} =>
               Returned = Rat(1, CHOOSE r \in RelevantRanks :
                                    \A q \in RelevantRanks : r <= q)

\* ------------------------------------------------- mean_average_precision
\* Every list of at most n documents.
DocLists(n) == UNION {[1..m -> Docs] : m \in 0..n}

\* What a strategy returns for a query: the documents ranked 1, 2, ...,
\* their relevance not judged yet.
AsResults(ids) ==
    [i \in 1..Len(ids) |-> SearchResult(ids[i], Rat(1, 2), i, FALSE)]

QuerySet == {Queries[i] : i \in 1..Len(Queries)}

\* all_results holds a result list for some queries, relevance_judgments a
\* set of relevant documents for some queries.
MapArgs ==
    \E asked \in SUBSET QuerySet, judged \in SUBSET QuerySet :
        \E lists \in [asked -> DocLists(MaxResults)],
           judgments \in [judged -> SUBSET Docs] :
            call = [fn |-> "mean_average_precision",
                    all_results |-> [q \in asked |-> AsResults(lists[q])],
                    relevance_judgments |-> judgments]

CallMeanAveragePrecision ==
    /\ call.fn = "mean_average_precision"
    /\ Return(Value(MeanAveragePrecision(call.all_results,
                                         call.relevance_judgments)))

\* The average precision of query q's result list against its judgment set;
\* 0 for a query that has no result list.
ApOf(q) ==
    IF q \notin DOMAIN call.all_results THEN Zero
    ELSE AveragePrecision(
             Marked(call.all_results[q], call.relevance_judgments[q]),
             Cardinality(call.relevance_judgments[q]))

RECURSIVE SumAp(_)
SumAp(qs) ==
    IF qs = {} THEN Zero
    ELSE LET q == CHOOSE x \in qs : TRUE
         IN  RAdd(ApOf(q), SumAp(qs \ {q}))

\* The queries of relevance_judgments with at least one relevant document.
Judged ==
    {q \in DOMAIN call.relevance_judgments :
        call.relevance_judgments[q] # {}}

C20_MapOverAllJudged ==
    Done("mean_average_precision") =>
        IF Judged = {} THEN Returned = Zero
        ELSE Returned = RDivInt(SumAp(Judged), Cardinality(Judged))

\* The list rs with its relevance flags replaced by those of f.
Reflag(rs, f) ==
    [i \in 1..Len(rs) |->
        SearchResult(rs[i].doc_id, rs[i].score, rs[i].rank, f[i])]

ExampleResults ==
    <<SearchResult("doc1", Rat(95, 100), 1, FALSE),
      SearchResult("doc2", Rat(87, 100), 2, FALSE),
      SearchResult("doc3", Rat(76, 100), 3, FALSE),
      SearchResult("doc4", Rat(68, 100), 4, FALSE),
      SearchResult("doc5", Rat(55, 100), 5, FALSE)>>

\* doc7 is in none of the results.
ExampleRelevant == {"doc1", "doc3", "doc7"}

ExampleArgs ==
    call = [fn |-> "evaluate_query", results |-> ExampleResults,
            relevant_docs |-> ExampleRelevant]

\* The positions of the relevant results of the call's list.
Hits == {i \in 1..Len(call.results) : call.results[i].relevant}

\* The sum over the hits in ps of (hits up to that position / position).
RECURSIVE HitPrecisionSum(_)
HitPrecisionSum(ps) ==
    IF ps = {} THEN Zero
    ELSE LET i == CHOOSE x \in ps : TRUE
         IN  RAdd(Rat(Cardinality({j \in Hits : j <= i}), i),
                  HitPrecisionSum(ps \ {i}))

\* C22: the example of the module evaluates to P@1 = 1, P@5 = 2/5,
\* R@10 = 2/3, MRR = 1 and AP = 5/9; and average_precision is always the sum
\* over the relevant hits of (hits so far / position) divided by
\* total_relevant, so a larger total_relevant (relevant documents missing
\* from the list) never raises it and lowers it when it is positive.
C22_AveragePrecision ==
    /\ (Done("evaluate_query") /\ call.results = ExampleResults
        /\ call.relevant_docs = ExampleRelevant) =>
           /\ ~Raised(ret[1])
           /\ Returned.precision_at_1 = Rat(1, 1)
           /\ Returned.precision_at_5 = Rat(2, 5)
           /\ Returned.recall_at_10 = Rat(2, 3)
           /\ Returned.mrr = Rat(1, 1)
           /\ Returned.average_precision = Rat(5, 9)
    /\ (Done("average_precision") /\ call.results # <<>>
        /\ call.total_relevant > 0) =>
           /\ Returned = RDivInt(HitPrecisionSum(Hits), call.total_relevant)
           /\ \A t \in Relevants :
                  t > call.total_relevant =>
                      LET less == AveragePrecision(call.results, t)
                      IN  IF Returned = Zero THEN less = Zero
                          ELSE RLt(less, Returned)

\* evaluate_query has returned the bundle of the example.
C22_Witness ==
    /\ Done("evaluate_query")
    /\ call.results = ExampleResults
    /\ call.relevant_docs = ExampleRelevant
    /\ Returned.average_precision = Rat(5, 9)

\* ------------------------------------------------------ hybrid_fusion_gain
\* Scores run from -1/2 to MaxScore/2 in steps of 1/2.
MaxScore == 2

Scores == {Rat(n, 2) : n \in -1..MaxScore}

FusionArgs ==
    \E h \in Scores, s \in Scores, l \in Scores, a \in Scores :
        call = [fn |-> "hybrid_fusion_gain", hybrid_score |-> h,
                semantic_score |-> s, lexical_score |-> l, ast_score |-> a]

CallHybridFusionGain ==
    /\ call.fn = "hybrid_fusion_gain"
    /\ Return(Value(HybridFusionGain(call.hybrid_score, call.semantic_score,
                                     call.lexical_score, call.ast_score)))

\* The singles of the call, and the largest of them.
Singles == {call.semantic_score, call.lexical_score, call.ast_score}
BestSingle == CHOOSE m \in Singles : \A x \in Singles : RLe(x, m)

\* C23: hybrid_fusion_gain returns (hybrid - m) / m for m = max(semantic,
\* lexical, ast) when m is not 0 and 0.0 when m is 0, never raising; with
\* non-negative scores the gain is negative exactly when hybrid < m.
C23_FusionGain ==
    Done("hybrid_fusion_gain") =>
        LET m == BestSingle
            h == call.hybrid_score
        IN  /\ ~Raised(ret[1])
            /\ m = Zero => Returned = Zero
            /\ m # Zero =>
                   Rat(Returned[1] * m[1], Returned[2] * m[2]) = RSub(h, m)
            /\ (\A x \in Singles \cup {h} : RLe(Zero, x)) =>
                   (RLt(Returned, Zero) <=> RLt(h, m))

\* The all-zero call returned 0.0.
C23_Witness ==
    /\ Done("hybrid_fusion_gain")
    /\ Singles \cup {call.hybrid_score} = {Zero}
    /\ Returned = Zero

BothComplete(j) ==
    /\ ~Raised(BaselineExecuteTask(j))
    /\ ~Raised(CsExecuteTask(j))

\* C25: when run_all_tasks returns, the record list holds one record for
\* each dispatched task on which both agents completed, in dispatch order,
\* built from the two runs of that task, and nothing else.
C25_OneRecordPerCompletedTask ==
    [][(pc = "loop" /\ pc' = "returned") =>
          LET completed == SelectSeq(tasks_to_run, BothComplete)
          IN  /\ Len(results') = Len(completed)
              /\ \A i \in 1..Len(completed) :
                     /\ results'[i].task_id = completed[i].task.id
                     /\ results'[i].baseline_calls = completed[i].env.b_calls
                     /\ results'[i].cs_calls = completed[i].env.cs_calls]_vars

\* A second batch has returned: two tasks dispatched, one of them raised,
\* one record kept.
C25_Witness ==
    /\ pc = "returned"
    /\ dispatched = 2
    /\ failed = 1
    /\ Len(results) = 1

\* C30: every key print_summary reads is present in every non-empty report,
\* so main's generate -> print -> save sequence does not raise.
C30_PrintKeysPresent ==
    HasReport =>
        /\ PrintSummaryMissing(summary) = {}
        /\ exc # <<"print_summary", "KeyError">>

\* ------------------------------------------------- the agents' commands
\* The words of a query_en, longest query considered.
MaxWords == 4

\* query_en is modelled by its split(): a sequence of lower-case words.
\* "config" and "error" are the two words execute_task looks for.
Vocabulary == {"parse", "config", "error"}
QueryTexts(n) == UNION {[1..k -> Vocabulary] : k \in 0..n}

\* "config" in query_en.lower()
Mentions(query_en, word) == \E i \in DOMAIN query_en : query_en[i] = word

\* len(text) // 4
EstimateTokens(chars) == chars \div 4

\* len("ERROR: Timeout") and len("ERROR: Command not found: cs")
TimeoutMessage == 14
NotFoundMessage == 28

\* No failure of a command is caught.
OutcomeUncaught(world, n) == IF n \in world.fails THEN "os_error" ELSE "ok"

\* What subprocess.run does for the n-th command of a run: "ok", or
\* "timeout" (TimeoutExpired), "not_found" (FileNotFoundError), or
\* "os_error" (any other OSError, which _run_command does not catch).
Outcome(world, n) == IF n \in world.fails THEN world.kind ELSE "ok"

SeqRange(s) == {s[i] : i \in DOMAIN s}

\* matches[:5], or all of matches when take is None
Top(files, take) == IF take = <<>> THEN files ELSE Slice(files, take[1])

ToolCall(tool, tokens) == [tool |-> tool, output_tokens |-> tokens]

\* BaselineAgent._run_command followed by the split into lines of
\* glob_search / grep_search: a failed command gives the empty output.
BaselineSearch(world, n, tool) ==
    LET ok == Outcome(world, n) = "ok"
    IN  [files     |-> IF ok THEN world.lines ELSE <<>>,
         tool_call |-> ToolCall(tool, EstimateTokens(IF ok THEN world.chars
                                                     ELSE 0))]

\* The searches with one keyword search per word of the query.
BaselineSearchesUncapped(task) ==
    LET keywords == task.query_en
        grep(take) == [tool |-> "rg", take |-> <<take>>]
    IN  [i \in 1..Len(keywords) |-> grep(5)]
        \o (IF Len(keywords) >= 2 THEN <<grep(5)>> ELSE <<>>)
        \o (IF Mentions(task.query_en, "config")
            THEN <<[tool |-> "find", take |-> <<>>]>> ELSE <<>>)
        \o (IF Mentions(task.query_en, "error") THEN <<grep(5)>> ELSE <<>>)
        \o (IF Get(task, "cross_file", FALSE) THEN <<grep(3)>> ELSE <<>>)

\* The searches BaselineAgent.execute_task makes, in order, each with the
\* number of matches it keeps.
BaselineSearches(task) ==
    LET keywords == task.query_en
        grep(take) == [tool |-> "rg", take |-> <<take>>]
    IN  [i \in 1..Min(3, Len(keywords)) |-> grep(5)]
        \o (IF Len(keywords) >= 2 THEN <<grep(5)>> ELSE <<>>)
        \o (IF Mentions(task.query_en, "config")
            THEN <<[tool |-> "find", take |-> <<>>]>> ELSE <<>>)
        \o (IF Mentions(task.query_en, "error") THEN <<grep(5)>> ELSE <<>>)
        \o (IF Get(task, "cross_file", FALSE) THEN <<grep(3)>> ELSE <<>>)

\* The commands one BaselineAgent.execute_task records and the files it
\* collects.
BaselineTrace(task, world) ==
    LET searches == BaselineSearches(task)
        step(n)  == BaselineSearch(world, n, searches[n].tool)
    IN  [tool_calls |-> [n \in 1..Len(searches) |-> step(n).tool_call],
         found      |-> UNION {SeqRange(Top(step(n).files, searches[n].take)) :
                                   n \in 1..Len(searches)}]

\* CSHybridAgent._run_command followed by the parse of cs_hybrid_search:
\* only lines of the form path:number: name a file, which the two ERROR
\* messages are not.
CsHybridSearch(world, n) ==
    LET oc    == Outcome(world, n)
        chars == CASE oc = "ok"        -> world.chars
                   [] oc = "timeout"   -> TimeoutMessage
                   [] oc = "not_found" -> NotFoundMessage
                   [] OTHER            -> 0
        lines == IF oc = "ok"
                 THEN [m \in 1..Len(world.lines) |->
                          [text |-> world.lines[m], numbered |-> TRUE]]
                 ELSE <<[text |-> "ERROR", numbered |-> FALSE]>>
    IN  [files     |-> {lines[m].text : m \in {k \in 1..Len(lines) :
                                                 lines[k].numbered}},
         tool_call |-> ToolCall("cs", EstimateTokens(chars))]

\* The commands one CSHybridAgent.execute_task records and the files it
\* collects: the initial search, the two refinements and the deep dive.
CsTrace(task, world) ==
    LET phase2  == \/ Get(task, "iterative", FALSE)
                   \/ Get(task, "difficulty", "medium") \in {"hard", "very_hard"}
        s1      == CsHybridSearch(world, 1)
        f1      == s1.files
        c1      == <<s1.tool_call>>
        config  == phase2 /\ Mentions(task.query_en, "config")
                          /\ Cardinality(f1) < 5
        s2      == CsHybridSearch(world, Len(c1) + 1)
        f2      == IF config THEN f1 \cup s2.files ELSE f1
        c2      == IF config THEN Append(c1, s2.tool_call) ELSE c1
        error   == phase2 /\ Mentions(task.query_en, "error")
                          /\ Cardinality(f2) < 5
        s3      == CsHybridSearch(world, Len(c2) + 1)
        f3      == IF error THEN f2 \cup s3.files ELSE f2
        c3      == IF error THEN Append(c2, s3.tool_call) ELSE c2
        deep    == Get(task, "gradient_descent", FALSE) /\ f3 # {}
        s4      == CsHybridSearch(world, Len(c3) + 1)
        f4      == IF deep THEN f3 \cup s4.files ELSE f3
        c4      == IF deep THEN Append(c3, s4.tool_call) ELSE c3
    IN  [tool_calls |-> c4, found |-> f4]

\* ------------------------------------------------ the agent's list object
\* An agent instance and the list objects it has created: heap[a] is the
\* content of the list at address a, self the address self.tool_calls holds.
\* __init__: self.tool_calls = []
NewAgent == [heap |-> <<<< >>>>, self |-> 1]

\* No reset at the start of execute_task.
KeepToolCalls(st) == st

\* self.tool_calls = [] at the start of execute_task: a new list object.
ResetToolCalls(st) ==
    [heap |-> Append(st.heap, << >>), self |-> Len(st.heap) + 1]

\* self.tool_calls.append(...), once per command
Record(st, toolcalls) == [st EXCEPT !.heap[st.self] = @ \o toolcalls]

\* sum(call.output_tokens for call in self.tool_calls)
RECURSIVE SumTokens(_)
SumTokens(toolcalls) ==
    IF toolcalls = << >> THEN 0
    ELSE Head(toolcalls).output_tokens + SumTokens(Tail(toolcalls))

\* The commands of a trace up to the first one that raises OSError.
Recorded(trace, world) ==
    LET bad == {n \in 1..Len(trace.tool_calls) : Outcome(world, n) = "os_error"}
    IN  IF bad = {} THEN trace.tool_calls
        ELSE SubSeq(trace.tool_calls, 1,
                    (CHOOSE n \in bad : \A m \in bad : n <= m) - 1)

\* The part of execute_task both agents share: reset, run the commands,
\* count them from self.tool_calls and hand a copy of the list to the
\* AgentRun. Gives the agent afterwards and the AgentRun or the exception.
ExecuteWith(st, task, world, trace, baseline) ==
    LET st0    == ResetToolCalls(st)
        wellformed == {"id", "task", "query_en"} \ DOMAIN task = {}
        st1    == IF wellformed THEN Record(st0, Recorded(trace, world)) ELSE st0
        raises == Len(Recorded(trace, world)) < Len(trace.tool_calls)
        calls  == st1.heap[st1.self]
        idle   == Env({}, 0, 0, 0, FALSE, {}, 0, 0, 0, FALSE)
        mine   == [b_found |-> trace.found, b_calls |-> Len(calls),
                   b_tokens |-> SumTokens(calls), b_duration |-> world.seconds,
                   b_raises |-> raises]
        theirs == [cs_found |-> trace.found, cs_calls |-> Len(calls),
                   cs_tokens |-> SumTokens(calls), cs_duration |-> world.seconds,
                   cs_raises |-> raises]
        run    == IF baseline
                  THEN BaselineExecuteTask([task |-> task, env |-> mine @@ idle])
                  ELSE CsExecuteTask([task |-> task, env |-> theirs @@ idle])
    IN  IF Raised(run) THEN [agent |-> st1, outcome |-> run]
        ELSE [agent   |-> [st1 EXCEPT !.heap = Append(@, calls)],
              outcome |-> run @@ [tool_calls |-> Len(st1.heap) + 1]]

\* BaselineAgent.execute_task on the agent st.
BaselineExecute(st, task, world) ==
    ExecuteWith(st, task, world,
                IF "query_en" \in DOMAIN task THEN BaselineTrace(task, world)
                ELSE [tool_calls |-> << >>, found |-> {}], TRUE)

\* CSHybridAgent.execute_task on the agent st.
CsExecute(st, task, world) ==
    ExecuteWith(st, task, world,
                IF "query_en" \in DOMAIN task THEN CsTrace(task, world)
                ELSE [tool_calls |-> << >>, found |-> {}], FALSE)

\* ---------------------------------------- execute_task called directly
\* What a search prints when it succeeds: the paths it names, in order
\* (a path may be named by several lines), and the length of the text.
Listings ==
    {[lines |-> << >>, chars |-> 0],
     [lines |-> <<"a", "b">>, chars |-> 9],
     [lines |-> <<"a", "a", "x", "y">>, chars |-> 43],
     [lines |-> <<"a", "b", "x", "y", "z", "w">>, chars |-> 62]}

\* The commands' fates: all succeed, or the first, the second or every
\* command fails in one of the three ways.
Worlds ==
    {[lines |-> l.lines, chars |-> l.chars, seconds |-> 1,
      fails |-> f, kind |-> k] :
     l \in Listings, f \in {{1}, {2}, 1..7},
     k \in {"timeout", "not_found", "os_error"}}
    \cup {[lines |-> l.lines, chars |-> l.chars, seconds |-> 1,
           fails |-> {}, kind |-> "timeout"] : l \in Listings}

\* A flag of the task dict, present and true or absent.
Flag(name, on) == IF on THEN name :> TRUE ELSE [k \in {} |-> TRUE]

QueryTask(q) ==
    [id |-> "t1", task |-> "d", query_en |-> q,
     ground_truth_files |-> {"a", "b"}]

\* Calls that vary the query, the task's flags and the commands' fates.
BaselineCommandArgs ==
    \E q \in QueryTexts(MaxWords), x \in BOOLEAN, w \in Worlds :
        call = [fn |-> "baseline_execute_task",
                task |-> QueryTask(q) @@ Flag("cross_file", x),
                world |-> w]

CsCommandArgs ==
    \E q \in QueryTexts(MaxWords), it \in BOOLEAN, g \in BOOLEAN,
       d \in {"", "easy", "hard"}, w \in Worlds :
        call = [fn |-> "cs_execute_task",
                task |-> QueryTask(q) @@ Flag("iterative", it)
                             @@ Flag("gradient_descent", g)
                             @@ (IF d = "" THEN [k \in {} |-> ""]
                                 ELSE "difficulty" :> d),
                world |-> w]

\* Calls that vary the ground truth, the success criteria and the files
\* found, every command succeeding.
Criteria ==
    {{}, {Finds70}, {"Identifies the entry point"},
     {Finds70, "Identifies the entry point"}}

PolicyTasks ==
    LET base(t) == [id |-> "t1", task |-> "d", query_en |-> <<"parse">>,
                    ground_truth_files |-> t]
    IN  {base(t) : t \in SUBSET {"a", "b", "c"}}
        \cup {base(t) @@ [success_criteria |-> c] :
                  t \in SUBSET {"a", "b", "c"}, c \in Criteria}

PolicyArgs ==
    \E t \in PolicyTasks, l \in Listings,
       fn \in {"baseline_execute_task", "cs_execute_task"} :
        call = [fn |-> fn, task |-> t,
                world |-> [lines |-> l.lines, chars |-> l.chars,
                           seconds |-> 1, fails |-> {}, kind |-> "timeout"]]

\* BaselineAgent(repo).execute_task(task)
CallBaselineExecuteTask ==
    /\ call.fn = "baseline_execute_task"
    /\ Return(BaselineExecute(NewAgent, call.task, call.world))

\* CSHybridAgent(repo).execute_task(task)
CallCsExecuteTask ==
    /\ call.fn = "cs_execute_task"
    /\ Return(CsExecute(NewAgent, call.task, call.world))

\* The AgentRun returned, and whether one was.
Ran(fn) == Done(fn) /\ ~Raised(ret[1].outcome)
Run == ret[1].outcome

\* C27: the cs success flag is recall >= 0.70 when the task's
\* success_criteria holds the string 'Finds at least 70% of ground truth
\* files', and recall >= 0.70 and precision >= 0.50 otherwise (criteria
\* absent, empty or unrecognized); so cs success implies recall >= 0.70,
\* and the baseline success flag is true exactly when recall >= 0.7.
C27_SuccessPolicy ==
    /\ Ran("cs_execute_task") =>
          LET listed == /\ "success_criteria" \in DOMAIN call.task
                        /\ Finds70 \in call.task.success_criteria
              enough == Run.recall[1] * 10 >= 7 * Run.recall[2]
              half   == Run.precision[1] * 2 >= Run.precision[2]
          IN  /\ Run.success = (IF listed THEN enough ELSE enough /\ half)
              /\ Run.success => enough
    /\ Ran("baseline_execute_task") =>
          Run.success = (Run.recall[1] * 10 >= 7 * Run.recall[2])

\* A run without the criterion that recalls everything but fails on
\* precision.
C27_Witness ==
    /\ Ran("cs_execute_task")
    /\ "success_criteria" \in DOMAIN call.task
    /\ Finds70 \notin call.task.success_criteria
    /\ call.task.success_criteria # {}
    /\ Run.recall = Rat(1, 1)
    /\ RLt(Run.precision, Rat(1, 2))
    /\ ~Run.success

\* The list of ToolCalls the returned AgentRun holds.
RunToolCalls == ret[1].agent.heap[Run.tool_calls]

\* The call made was of fn, and some command it ran timed out or did not
\* find its binary.
CommandFailed(fn) ==
    /\ Done(fn)
    /\ call.world.kind \in {"timeout", "not_found"}
    /\ call.world.fails # {}

\* output_tokens of a failed command: the baseline's output is "", cs's the
\* ERROR message.
FailureTokens(fn, kind) ==
    CASE fn = "baseline_execute_task" -> 0
      [] kind = "timeout"             -> 3
      [] OTHER                        -> 7

\* C28: a command that times out or whose binary is not found does not
\* raise out of execute_task: the run returns an AgentRun, the command is
\* one ToolCall of its list and counted in total_calls, and it adds no file
\* (a run whose every command failed finds nothing).
C28_FailedCommandRecorded ==
    \A fn \in {"baseline_execute_task", "cs_execute_task"} :
        CommandFailed(fn) =>
            /\ ~Raised(ret[1].outcome)
            /\ Run.total_calls = Len(RunToolCalls)
            /\ \A n \in call.world.fails \cap 1..Len(RunToolCalls) :
                   RunToolCalls[n].output_tokens
                       = FailureTokens(fn, call.world.kind)
            /\ (1..Len(RunToolCalls) \subseteq call.world.fails)
                   => Run.files_found = {}
            /\ fn = "baseline_execute_task"
                   => Len(RunToolCalls) = Len(BaselineSearches(call.task))
            /\ fn = "cs_execute_task" => Len(RunToolCalls) >= 1

\* cs is not installed: the initial search and both refinements fail and
\* are recorded, no file is found and the run is returned.
C28_Witness ==
    /\ CommandFailed("cs_execute_task")
    /\ call.world.kind = "not_found"
    /\ call.world.fails = 1..7
    /\ ~Raised(ret[1].outcome)
    /\ Run.total_calls = 3
    /\ Run.total_output_tokens = 21
    /\ Run.files_found = {}

\* C29: a cs run records at least 1 and at most 4 commands; a baseline run
\* records at most 7, and none when the query is empty and the task is not
\* cross-file.
C29_CommandsBounded ==
    /\ Ran("cs_execute_task") =>
          /\ Len(RunToolCalls) \in 1..4
          /\ Run.total_calls = Len(RunToolCalls)
    /\ Ran("baseline_execute_task") =>
          /\ Len(RunToolCalls) \in 0..7
          /\ Run.total_calls = Len(RunToolCalls)
          /\ (call.task.query_en = << >> /\ "cross_file" \notin DOMAIN call.task)
                 => Run.total_calls = 0

\* A four-word query naming config and error on a cross-file task: seven
\* baseline commands.
C29_Witness ==
    /\ Ran("baseline_execute_task")
    /\ Len(call.task.query_en) = 4
    /\ Run.total_calls = 7

\* ---------------------------------------------- the direct-call machine
\* One function is about to be called with arguments a caller can build;
\* the runner is idle.
CallInit ==
    /\ results = <<>>
    /\ pc = "init"
    /\ tasks_to_run = <<>>
    /\ max_tasks = NoCap
    /\ local_results = <<>>
    /\ dispatched = 0
    /\ failed = 0
    /\ summary = NoSummary
    /\ exc = NoExc
    /\ mainpc = "api"
    /\ ret = <<>>
    /\ agent = NoAgent
    /\ runs = << >>
    /\ \/ RunSingleTaskArgs
       \/ PrecisionArgs
       \/ RecallArgs
       \/ MrrArgs
       \/ DcgArgs
       \/ NdcgArgs
       \/ ApArgs
       \/ EvaluateQueryArgs
       \/ ExampleArgs
       \/ MapArgs
       \/ FusionArgs
       \/ BaselineCommandArgs
       \/ CsCommandArgs
       \/ PolicyArgs

CallNext ==
    \/ CallRunSingleTask
    \/ CallPrecisionAtK
    \/ CallRecallAtK
    \/ CallMeanReciprocalRank
    \/ CallDiscountedCumulativeGain
    \/ CallNormalizedDcg
    \/ CallAveragePrecision
    \/ CallEvaluateQuery
    \/ CallMeanAveragePrecision
    \/ CallHybridFusionGain
    \/ CallBaselineExecuteTask
    \/ CallCsExecuteTask

CallSpec == CallInit /\ [][CallNext]_vars

\* ------------------------------------- one agent instance, several tasks
\* How many execute_task calls are made on the instance.
MaxRuns == 2

\* The tasks given to the instance: an empty query, one keyword, a hard
\* cross-file task naming config and error, a gradient-descent task, and a
\* task without 'id'.
AgentTasks ==
    {QueryTask(<< >>),
     QueryTask(<<"parse">>),
     QueryTask(<<"config", "error", "parse", "parse">>)
         @@ [cross_file |-> TRUE, difficulty |-> "hard"],
     QueryTask(<<"parse", "error">>)
         @@ [gradient_descent |-> TRUE, iterative |-> TRUE],
     [task |-> "d", query_en |-> <<"parse">>, ground_truth_files |-> {"a"}]}

\* The commands' fates: all succeed with one of two listings, the first
\* times out, none finds its binary, the second dies of another OSError.
AgentWorlds ==
    LET some == [lines |-> <<"a", "b">>, chars |-> 9, seconds |-> 1]
        many == [lines |-> <<"a", "b", "x", "y", "z", "w">>, chars |-> 62,
                 seconds |-> 1]
    IN  {some @@ [fails |-> {}, kind |-> "timeout"],
         many @@ [fails |-> {}, kind |-> "timeout"],
         some @@ [fails |-> {1}, kind |-> "timeout"],
         some @@ [fails |-> 1..7, kind |-> "not_found"],
         some @@ [fails |-> {2}, kind |-> "os_error"]}

\* The runner is idle and no function is called on its own.
OnlyAgent ==
    /\ results = <<>>
    /\ pc = "init"
    /\ tasks_to_run = <<>>
    /\ max_tasks = NoCap
    /\ local_results = <<>>
    /\ dispatched = 0
    /\ failed = 0
    /\ summary = NoSummary
    /\ exc = NoExc
    /\ mainpc = "api"
    /\ call = NoCall
    /\ ret = <<>>

\* BaselineAgent(repo) or CSHybridAgent(repo) has been constructed.
AgentInit ==
    /\ OnlyAgent
    /\ \E k \in {"baseline", "cs"} : agent = [kind |-> k] @@ NewAgent
    /\ runs = << >>

\* execute_task returned or raised: the instance is as the call left it and
\* the caller keeps the outcome.
Executed(task, world, r) ==
    /\ agent' = [kind |-> agent.kind] @@ r.agent
    /\ runs' = Append(runs, [task |-> task, world |-> world,
                             outcome |-> r.outcome])
    /\ UNCHANGED <<call, ret, runnerVars>>

\* baseline_agent.execute_task(task)
BaselineAgentExecuteTask ==
    /\ agent.kind = "baseline"
    /\ Len(runs) < MaxRuns
    /\ \E task \in AgentTasks, world \in AgentWorlds :
           Executed(task, world,
                    BaselineExecute([heap |-> agent.heap, self |-> agent.self],
                                    task, world))

\* cs_agent.execute_task(task)
CsAgentExecuteTask ==
    /\ agent.kind = "cs"
    /\ Len(runs) < MaxRuns
    /\ \E task \in AgentTasks, world \in AgentWorlds :
           Executed(task, world,
                    CsExecute([heap |-> agent.heap, self |-> agent.self],
                              task, world))

AgentNext == BaselineAgentExecuteTask \/ CsAgentExecuteTask

AgentSpec == AgentInit /\ [][AgentNext]_vars

\* The commands the i-th call ran, from its task and the commands' fates.
OwnCommands(i) ==
    IF agent.kind = "baseline"
    THEN BaselineTrace(runs[i].task, runs[i].world).tool_calls
    ELSE CsTrace(runs[i].task, runs[i].world).tool_calls

\* C26: whatever calls were made before or after it on the same agent,
\* every AgentRun counts the commands of its own call in total_calls, sums
\* their tokens in total_output_tokens, and its tool_calls list holds those
\* commands and no others.
C26_RunsIndependent ==
    \A i \in 1..Len(runs) :
        ~Raised(runs[i].outcome) =>
            /\ runs[i].outcome.total_calls = Len(OwnCommands(i))
            /\ runs[i].outcome.total_output_tokens = SumTokens(OwnCommands(i))
            /\ agent.heap[runs[i].outcome.tool_calls] = OwnCommands(i)

\* Two runs with commands on one instance, the later one shorter.
C26_Witness ==
    /\ Len(runs) = 2
    /\ ~Raised(runs[1].outcome)
    /\ ~Raised(runs[2].outcome)
    /\ runs[1].outcome.total_calls > runs[2].outcome.total_calls
    /\ runs[2].outcome.total_calls > 0
====
